---- MODULE Spec2Model ----
(***************************************************************************)
(* A model of the RESP frame codec (src/src/frame.rs) and of the buffered  *)
(* Connection built on it (src/src/connection.rs).                         *)
(*                                                                         *)
(* Bytes are one-character strings, byte buffers are sequences of them.    *)
(* Slices are 0-indexed and half-open in the source; sequences here are    *)
(* 1-indexed, so src[i] of the source is src[i + 1] here and src[a..b] is   *)
(* SubSeq(src, a + 1, b).                                                  *)
(***************************************************************************)
EXTENDS Integers, Sequences, FiniteSets, TLC

VARIABLES
    buffer,     \* Connection.buffer: the read buffer (BytesMut)
    wbuf,       \* the BufWriter's internal write buffer
    sock_in,    \* bytes the peer has sent that the socket has not yet handed over
    sock_out,   \* bytes that have reached the socket (in order)
    script,     \* history: the frames whose wire bytes the peer wrote
    peer,       \* history: "frames" (all of script), "cut" (closed part-way), "raw"
    writes,     \* history: the frames passed to write_frame, in call order
    lastCall,   \* history: the read_frame call that returned last
    delivered,  \* history: the frames read_frame has returned, in order
    ncalls,     \* history: how many read_frame calls have returned
    nerrs,      \* history: how many of them returned a FrameError
    cin,        \* codec harness: the input (a frame or a byte buffer)
    cout,       \* codec harness: the result of the operation applied to cin
    cop         \* codec harness: which operation produced cout

vars == <<buffer, wbuf, sock_in, sock_out, script, peer, writes, lastCall, delivered, ncalls,
          nerrs, cin, cout, cop>>
connVars == <<buffer, wbuf, sock_in, sock_out, script, peer, writes, lastCall, delivered, ncalls,
              nerrs>>
codecVars == <<cin, cout, cop>>

----------------------------------------------------------------------------
(* Bounds of the model *)

MaxPayload == 2     \* longest Simple/Error/Bulk payload of a generated frame
MaxArrayLen == 2    \* most elements of a generated array
MaxFrames == 2      \* most frames the peer writes on one connection
MaxCalls == 4       \* most read_frame calls on one connection
MaxWrites == 3      \* most write_frame calls on one connection
MaxRaw == 3         \* longest buffer of arbitrary bytes handed to parse
MaxToken == 5       \* most bytes after the tag of a generated +, - or : buffer

----------------------------------------------------------------------------
(* Bytes *)

CR == "\r"
LF == "\n"
CRLF == <<CR, LF>>

Digits == <<"0", "1", "2", "3", "4", "5", "6", "7", "8", "9">>
IsDigit(c) == \E i \in 1..10 : Digits[i] = c
DigitVal(c) == (CHOOSE i \in 1..10 : Digits[i] = c) - 1

\* src[at..] of the source
From(src, at) == SubSeq(src, at + 1, Len(src))
\* src[..at] of the source
UpTo(src, at) == SubSeq(src, 1, at)

----------------------------------------------------------------------------
(* enum Frame, frame.rs:10-18.  One record shape for all variants. *)

Simple(b)  == [tag |-> "Simple",  b |-> b,    n |-> 0, inner |-> <<>>]
Error(b)   == [tag |-> "Error",   b |-> b,    n |-> 0, inner |-> <<>>]
Integer(n) == [tag |-> "Integer", b |-> <<>>, n |-> n, inner |-> <<>>]
Bulk(b)    == [tag |-> "Bulk",    b |-> b,    n |-> 0, inner |-> <<>>]
Null       == [tag |-> "Null",    b |-> <<>>, n |-> 0, inner |-> <<>>]
Array(v)   == [tag |-> "Array",   b |-> <<>>, n |-> 0, inner |-> v]
\* placeholder in results that carry no frame
NoFrame    == [tag |-> "-",       b |-> <<>>, n |-> 0, inner |-> <<>>]

----------------------------------------------------------------------------
(* Results: Result<(T, &[u8]), FrameError>, frame.rs:87-92.                *)
(* kind is "Ok", one of the three FrameError variants, or "Panic" when the *)
(* call aborts instead of returning.                                       *)

OkBytes(val, rest)  == [kind |-> "Ok", val |-> val, rest |-> rest]
ErrBytes(e)         == [kind |-> e, val |-> <<>>, rest |-> <<>>]
OkDec(n, rest)      == [kind |-> "Ok", n |-> n, rest |-> rest]
ErrDec(e)           == [kind |-> e, n |-> 0, rest |-> <<>>]
OkFrame(f, rest)    == [kind |-> "Ok", frame |-> f, leftover |-> rest]
ErrFrame(e)         == [kind |-> e, frame |-> NoFrame, leftover |-> <<>>]

\* one returned call of read_frame: what it returned (Some(frame), None,
\* reset-by-peer, a FrameError, an I/O error, or an abort), the buffer it
\* was entered with, what Frame::parse said of that buffer, and how many
\* bytes its read_buf returned (-1: it did not read)
Call(ret, f, before, parsed, nread) ==
    [ret |-> ret, frame |-> f, before |-> before, parsed |-> parsed, nread |-> nread]

NoCall == Call("-", NoFrame, <<>>, "-", 0 - 1)

\* a peek_u8_at that reports a short buffer as malformed
peek_u8_at_BadFormat(src, at) ==
    IF at < Len(src) THEN [kind |-> "Ok", byte |-> src[at + 1]]
    ELSE [kind |-> "BadFormat", byte |-> ""]

\* peek_u8_at: Ok(src[at]) when at < src.len(), else Incomplete
peek_u8_at(src, at) ==
    IF at < Len(src) THEN [kind |-> "Ok", byte |-> src[at + 1]]
    ELSE [kind |-> "Incomplete", byte |-> ""]

\* get_bytes_from: Ok(&src[at..]) when at < src.len(), else Incomplete
get_bytes_from(src, at) ==
    IF at < Len(src) THEN OkBytes(From(src, at), <<>>)
    ELSE ErrBytes("Incomplete")

\* get_bytes_until_crlf: at the first i with src[i] = CR and src[i+1] = LF it
\* returns (&src[..i], &src[i..]): the second slice starts AT the CR.
\* a terminator test that looks at the CR only
CrlfAt_OnlyCR(src, i) == src[i + 1] = CR
CrlfAt(src, i) == src[i + 1] = CR /\ src[i + 2] = LF
get_bytes_until_crlf(src) ==
    IF Len(src) >= 2 /\ \E i \in 0..(Len(src) - 2) : CrlfAt(src, i)
    THEN LET i == CHOOSE k \in 0..(Len(src) - 2) :
                    /\ CrlfAt(src, k)
                    /\ \A j \in 0..(k - 1) : ~CrlfAt(src, j)
         IN  OkBytes(UpTo(src, i), From(src, i))
    ELSE ErrBytes("Incomplete")

(* atoi::atoi::<i64> (external crate, called at frame.rs:107 and :274): an  *)
(* optional sign, then the longest run of decimal digits; bytes after the  *)
(* digits are ignored.  None when no byte was consumed.  The model's       *)
(* buffers are far shorter than 19 digits, so the checked arithmetic never *)
(* overflows and the overflow-to-None branch is not reachable here.        *)
RECURSIVE DigitRun(_, _)
DigitRun(text, i) ==
    IF i <= Len(text) /\ IsDigit(text[i]) THEN DigitRun(text, i + 1) ELSE i - 1

RECURSIVE DigitsValue(_, _, _, _)
DigitsValue(text, i, last, acc) ==
    IF i > last THEN acc
    ELSE DigitsValue(text, i + 1, last, acc * 10 + DigitVal(text[i]))

atoi(text) ==
    LET signed == Len(text) > 0 /\ text[1] \in {"+", "-"}
        offset == IF signed THEN 1 ELSE 0
        index  == DigitRun(text, offset + 1)
        mag    == DigitsValue(text, offset + 1, index, 0)
    IN  IF index = 0 THEN [some |-> FALSE, val |-> 0]
        ELSE [some |-> TRUE,
              val |-> IF signed /\ text[1] = "-" THEN 0 - mag ELSE mag]

\* get_decimal_until_crlf: the token before the CRLF must be longer than 3
\* bytes, and the number is read from str[1 .. str.len() - 2]
get_decimal_until_crlf(src) ==
    LET r == get_bytes_until_crlf(src) IN
    IF r.kind # "Ok" THEN ErrDec(r.kind)
    ELSE IF Len(r.val) > 3
         THEN LET res == atoi(SubSeq(r.val, 2, Len(r.val) - 2)) IN
              IF res.some THEN OkDec(res.val, r.rest)
              ELSE ErrDec("InvalidInteger")
         ELSE ErrDec("Incomplete")

----------------------------------------------------------------------------
(* Frame::parse, frame.rs:95-146 *)

\* the +, - and : arms: get_bytes_until_crlf(get_bytes_from(src, 1)?)?
token_after_tag(src) ==
    LET g == get_bytes_from(src, 1) IN
    IF g.kind # "Ok" THEN ErrBytes(g.kind) ELSE get_bytes_until_crlf(g.val)

\* the $ and * arms: get_decimal_until_crlf(get_bytes_from(src, 1)?)?
decimal_after_tag(src) ==
    LET g == get_bytes_from(src, 1) IN
    IF g.kind # "Ok" THEN ErrDec(g.kind) ELSE get_decimal_until_crlf(g.val)

\* the $ arm after the header, frame.rs:113-124.  && is short-circuit and
\* each peek returns early with Incomplete when it is out of range.
parse_bulk(len, leftover) ==
    IF len < 0 THEN OkFrame(Null, leftover)
    ELSE LET p1 == peek_u8_at(leftover, len)
             p2 == peek_u8_at(leftover, len + 1)
             g  == get_bytes_from(leftover, len + 2)
         IN  IF p1.kind # "Ok" THEN ErrFrame(p1.kind)
             ELSE IF p1.byte # CR THEN ErrFrame("BadFormat")
             ELSE IF p2.kind # "Ok" THEN ErrFrame(p2.kind)
             ELSE IF p2.byte # LF THEN ErrFrame("BadFormat")
             ELSE IF g.kind # "Ok" THEN ErrFrame(g.kind)
             ELSE OkFrame(Bulk(UpTo(leftover, len)), g.val)

\* the end of the * arm, frame.rs:138-142: the first leftover byte is
\* compared with CR twice
parse_array_end(result, leftover) ==
    LET p == peek_u8_at(leftover, 0) IN
    IF p.kind # "Ok" THEN ErrFrame(p.kind)
    ELSE IF p.byte = CR /\ p.byte = CR THEN OkFrame(Array(result), leftover)
    ELSE ErrFrame("BadFormat")

RECURSIVE parse(_)
RECURSIVE parse_elements(_, _, _)

\* the while loop of the * arm, frame.rs:131-136
parse_elements(count, leftover, result) ==
    IF count # 0 /\ Len(leftover) # 0
    THEN LET r == parse(leftover) IN
         IF r.kind # "Ok" THEN ErrFrame(r.kind)
         ELSE parse_elements(count - 1, r.leftover, Append(result, r.frame))
    ELSE parse_array_end(result, leftover)

parse(src) ==
    LET t == peek_u8_at(src, 0) IN
    IF t.kind # "Ok" THEN ErrFrame(t.kind)
    ELSE IF t.byte \in {"+", "-"}
    THEN LET r == token_after_tag(src) IN
         IF r.kind # "Ok" THEN ErrFrame(r.kind)
         ELSE IF t.byte = "+" THEN OkFrame(Simple(r.val), r.rest)
         ELSE OkFrame(Error(r.val), r.rest)
    ELSE IF t.byte = ":"
    THEN LET r == token_after_tag(src) IN
         IF r.kind # "Ok" THEN ErrFrame(r.kind)
         ELSE LET res == atoi(r.val) IN
              IF res.some THEN OkFrame(Integer(res.val), r.rest)
              ELSE ErrFrame("InvalidInteger")
    ELSE IF t.byte = "$"
    THEN LET d == decimal_after_tag(src) IN
         IF d.kind # "Ok" THEN ErrFrame(d.kind) ELSE parse_bulk(d.n, d.rest)
    ELSE IF t.byte = "*"
    THEN LET d == decimal_after_tag(src) IN
         IF d.kind # "Ok" THEN ErrFrame(d.kind)
         \* Vec::with_capacity(count as usize): a negative count becomes a
         \* capacity above isize::MAX and the allocation aborts the call
         ELSE IF d.n < 0 THEN ErrFrame("Panic")
         ELSE parse_elements(d.n, d.rest, <<>>)
    ELSE ErrFrame("BadFormat")

----------------------------------------------------------------------------
(* format!("{}", n) for an integer: the decimal digits, '-' first when     *)
(* negative (frame.rs:153, 190, 199, 220)                                  *)

RECURSIVE FormatNat(_)
FormatNat(n) ==
    IF n < 10 THEN <<Digits[n + 1]>>
    ELSE Append(FormatNat(n \div 10), Digits[(n % 10) + 1])

FormatInt(n) == IF n < 0 THEN <<"-">> \o FormatNat(0 - n) ELSE FormatNat(n)

(* Frame::len, frame.rs:148-158 *)
RECURSIVE FrameLen(_)
RECURSIVE SumLen(_)
\* a Frame::len that counts an Integer as the 20 bytes of the widest i64
FrameLen_FixedWidth(f) ==
    CASE f.tag = "Simple"  -> Len(f.b)
      [] f.tag = "Error"   -> Len(f.b)
      [] f.tag = "Integer" -> 20
      [] f.tag = "Bulk"    -> Len(f.b)
      [] f.tag = "Null"    -> 4
      [] f.tag = "Array"   -> SumLen(f.inner)

SumLen(v) == IF v = <<>> THEN 0 ELSE FrameLen(Head(v)) + SumLen(Tail(v))
FrameLen(f) ==
    CASE f.tag = "Simple"  -> Len(f.b)
      [] f.tag = "Error"   -> Len(f.b)
      [] f.tag = "Integer" -> Len(FormatInt(f.n))
      [] f.tag = "Bulk"    -> Len(f.b)
      [] f.tag = "Null"    -> 4
      [] f.tag = "Array"   -> SumLen(f.inner)

----------------------------------------------------------------------------
(* Frame::as_bytes, frame.rs:171-234.                                      *)
(* The only write_u8 / write_all in scope in frame.rs are those of         *)
(* tokio::io::AsyncWriteExt (frame.rs:8).  Each call builds a future that  *)
(* writes when it is polled; as_bytes never awaits one, so every future is *)
(* dropped unpolled and the Vec it would have written to is unchanged.     *)

write_u8(result, byte)   == result
write_all(result, bytes) == result

RECURSIVE as_bytes(_)
RECURSIVE write_elements(_, _)
\* the for loop of the Array arm, frame.rs:226-228
write_elements(result, v) ==
    IF v = <<>> THEN result
    ELSE write_elements(write_all(result, as_bytes(Head(v))), Tail(v))

as_bytes(f) ==
    CASE f.tag \in {"Simple", "Error"} ->
            LET r1 == write_u8(<<>>, IF f.tag = "Simple" THEN "+" ELSE "-")
                r2 == write_all(r1, f.b)
                r3 == write_u8(r2, CR)
            IN  write_u8(r3, LF)
      [] f.tag = "Integer" ->
            LET r1 == write_u8(<<>>, ":")
                r2 == write_all(r1, FormatInt(f.n))
                r3 == write_u8(r2, CR)
            IN  write_u8(r3, LF)
      [] f.tag = "Bulk" ->
            LET r1 == write_u8(<<>>, "$")
                r2 == write_all(r1, FormatInt(Len(f.b)))
                r3 == write_u8(r2, CR)
                r4 == write_u8(r3, LF)
                r5 == write_all(r4, f.b)
                r6 == write_u8(r5, CR)
            IN  write_u8(r6, LF)
      [] f.tag = "Null" ->
            LET r1 == write_u8(<<>>, "$")
                r2 == write_u8(r1, "-")
                r3 == write_u8(r2, "1")
                r4 == write_u8(r3, CR)
            IN  write_u8(r4, LF)
      [] f.tag = "Array" ->
            LET r1 == write_u8(<<>>, "*")
                r2 == write_all(r1, FormatInt(Len(f.inner)))
                r3 == write_elements(r2, f.inner)
                r4 == write_u8(r3, CR)
            IN  write_u8(r4, LF)

----------------------------------------------------------------------------
(* The RESP wire format the peer speaks (spec section 6): what a client    *)
(* puts on the stream for a frame, and the reference the codec is held to. *)

RECURSIVE Wire(_)
RECURSIVE WireAll(_)
WireAll(v) == IF v = <<>> THEN <<>> ELSE Wire(Head(v)) \o WireAll(Tail(v))
Wire(f) ==
    CASE f.tag = "Simple"  -> <<"+">> \o f.b \o CRLF
      [] f.tag = "Error"   -> <<"-">> \o f.b \o CRLF
      [] f.tag = "Integer" -> <<":">> \o FormatInt(f.n) \o CRLF
      [] f.tag = "Bulk"    -> <<"$">> \o FormatInt(Len(f.b)) \o CRLF \o f.b \o CRLF
      [] f.tag = "Null"    -> <<"$", "-", "1">> \o CRLF
      [] f.tag = "Array"   -> <<"*">> \o FormatInt(Len(f.inner)) \o CRLF \o WireAll(f.inner)

----------------------------------------------------------------------------
(* Inputs *)

RECURSIVE SeqsUpTo(_, _)
\* all sequences over S of length at most k
SeqsUpTo(S, k) ==
    IF k = 0 THEN {<<>>}
    ELSE LET shorter == SeqsUpTo(S, k - 1) IN
         shorter \cup {Append(q, x) : q \in shorter, x \in S}

Prefixes(bytes) == {UpTo(bytes, k) : k \in 0..Len(bytes)}
ProperPrefixes(bytes) == {UpTo(bytes, k) : k \in 1..(Len(bytes) - 1)}

PayloadBytes == {"O", "K"}
Payloads == SeqsUpTo(PayloadBytes, MaxPayload)
IntValues == {0 - 12, 0 - 1, 0, 7, 10}

LeafFrames ==
    {Simple(b) : b \in Payloads} \cup {Error(b) : b \in Payloads}
    \cup {Bulk(b) : b \in Payloads} \cup {Integer(n) : n \in IntValues}
    \cup {Null}

\* the elements of generated arrays, arrays among them
ElemFrames ==
    {Simple(<<>>), Integer(1), Bulk(<<"O", "K">>), Null,
     Array(<<>>), Array(<<Integer(1)>>)}

\* constructible frames handed to the codec
CodecFrames == LeafFrames \cup {Array(v) : v \in SeqsUpTo(ElemFrames, MaxArrayLen)}

\* arbitrary short buffers
RawBytes == {"+", "-", ":", "$", "*", CR, LF, "1", "x"}
RawBuffers == SeqsUpTo(RawBytes, MaxRaw)

\* buffers whose $ or * header token is longer than three bytes: one byte,
\* one or two bytes where get_decimal_until_crlf reads the number, two bytes
HeaderBytes == {"0", "1", "-", "x"}
HeaderTokens ==
    {<<first>> \o mid \o last :
        first \in {"0", "1", "x"},
        mid \in SeqsUpTo(HeaderBytes, 2) \ {<<>>},
        last \in {<<"0", "0">>, <<"x", "x">>}}
HeaderTails ==
    {<<>>, <<"x">>, CRLF, CRLF \o <<"x">>, <<"a">> \o CRLF, <<"a">> \o CRLF \o <<"x">>,
     <<":", "1">> \o CRLF}
HeaderBuffers ==
    {<<t>> \o q \o CRLF \o tail : t \in {"$", "*"}, q \in HeaderTokens, tail \in HeaderTails}

\* buffers with a +, - or : tag, then bytes with terminators, lone CRs and
\* LFs, digits and other bytes among them
TokenBytes == {CR, LF, "1", "x"}
TokenBuffers == {<<t>> \o q : t \in {"+", "-", ":"}, q \in SeqsUpTo(TokenBytes, MaxToken)}

\* the malformed buffers the specification names
ExampleBuffers ==
    {<<":", "1", "2", "x">> \o CRLF,
     <<"$", "3">> \o CRLF \o <<"f", "o", "o", "X", "X">>,
     <<"*", "1", "0", "0", "0">> \o CRLF}

\* what the codec harness starts from: a frame to encode or measure, or a
\* buffer to parse.  role and of say how a buffer relates to the wire format:
\* the whole wire form of a frame, a proper non-empty prefix of one, or
\* neither by construction.
FrameInput(f)          == [kind |-> "frame", frame |-> f, bytes |-> <<>>, role |-> "frame"]
BytesInput(b, role, f) == [kind |-> "bytes", frame |-> f, bytes |-> b, role |-> role]

CodecInputs ==
    {FrameInput(f) : f \in CodecFrames}
    \cup {BytesInput(Wire(f), "wire", f) : f \in CodecFrames}
    \cup UNION {{BytesInput(b, "prefix", f) : b \in ProperPrefixes(Wire(f))} : f \in CodecFrames}
    \cup {BytesInput(b, "raw", NoFrame) : b \in RawBuffers \cup HeaderBuffers \cup TokenBuffers \cup ExampleBuffers}

\* the frames a peer writes on a connection
ScriptFrames ==
    {Simple(<<"O", "K">>), Integer(7), Bulk(<<"h", "i">>), Null,
     Array(<<Integer(1), Integer(2)>>)}

\* other bytes a peer may write: no frame, or a $ or * header whose token
\* is longer than three bytes
RawStreams ==
    {<<"x">>} \cup
    {<<t>> \o q \o CRLF \o tail :
        t \in {"$", "*"},
        q \in {<<"0", "0", "0", "0">>, <<"0", "1", "0", "0">>, <<"0", "-", "1", "0", "0">>,
               <<"0", "x", "0", "0">>},
        tail \in HeaderTails}

\* the frames the caller hands to write_frame
WriteFrames == {Simple(<<"O", "K">>), Integer(7), Bulk(<<"h", "i">>), Null,
                Array(<<Integer(1)>>)}

----------------------------------------------------------------------------
(* The codec harness: one pure operation applied to one input *)

NoOut == [bytes |-> <<>>, len |-> 0, res |-> ErrFrame("-")]

CodecIdle ==
    /\ cin = FrameInput(NoFrame)
    /\ cout = NoOut
    /\ cop = "idle"

ConnIdle ==
    /\ buffer = <<>>
    /\ wbuf = <<>>
    /\ sock_in = <<>>
    /\ sock_out = <<>>
    /\ script = <<>>
    /\ peer = "frames"
    /\ writes = <<>>
    /\ lastCall = NoCall
    /\ delivered = <<>>
    /\ ncalls = 0
    /\ nerrs = 0

InitCodec ==
    /\ cin \in CodecInputs
    /\ cout = NoOut
    /\ cop = "init"
    /\ ConnIdle

\* Frame::as_bytes on the input frame
Encode ==
    /\ cop = "init"
    /\ cin.kind = "frame"
    /\ cout' = [NoOut EXCEPT !.bytes = as_bytes(cin.frame)]
    /\ cop' = "as_bytes"
    /\ UNCHANGED <<cin, connVars>>

\* Frame::len on the input frame
Measure ==
    /\ cop = "init"
    /\ cin.kind = "frame"
    /\ cout' = [NoOut EXCEPT !.len = FrameLen(cin.frame)]
    /\ cop' = "len"
    /\ UNCHANGED <<cin, connVars>>

\* Frame::parse on the input buffer
Decode ==
    /\ cop = "init"
    /\ cin.kind = "bytes"
    /\ cout' = [NoOut EXCEPT !.bytes = cin.bytes, !.res = parse(cin.bytes)]
    /\ cop' = "parse"
    /\ UNCHANGED <<cin, connVars>>

\* Frame::parse on the bytes as_bytes returned for the input frame
RoundTrip ==
    /\ cop = "as_bytes"
    /\ cout' = [cout EXCEPT !.res = parse(cout.bytes)]
    /\ cop' = "round_trip"
    /\ UNCHANGED <<cin, connVars>>

NextCodec == Encode \/ Measure \/ Decode \/ RoundTrip

SpecCodec == InitCodec /\ [][NextCodec]_vars

----------------------------------------------------------------------------
(* Connection, connection.rs *)

Aborted == lastCall.ret = "Panic"

\* what a peer may put on the stream before it closes: the wire forms of
\* the frames of a script, all of them or cut short, or other bytes
PeerStreams(sc) ==
    {[peer |-> "frames", bytes |-> WireAll(sc)]}
    \cup {[peer |-> "cut", bytes |-> b] : b \in Prefixes(WireAll(sc)) \ {WireAll(sc)}}
    \cup IF sc = <<>> THEN {[peer |-> "raw", bytes |-> b] : b \in RawStreams} ELSE {}

\* Connection::new, connection.rs:34-43, on a socket with a peer's bytes in
\* flight
Init ==
    /\ script \in SeqsUpTo(ScriptFrames, MaxFrames)
    /\ \E ps \in PeerStreams(script) :
          /\ peer = ps.peer
          /\ sock_in = ps.bytes
    /\ buffer = <<>>
    /\ wbuf = <<>>
    /\ sock_out = <<>>
    /\ writes = <<>>
    /\ lastCall = NoCall
    /\ delivered = <<>>
    /\ ncalls = 0
    /\ nerrs = 0
    /\ CodecIdle

\* BytesMut::advance(cnt), connection.rs:73: aborts when cnt is more than
\* what is buffered
CanAdvance(buf, cnt) == cnt <= Len(buf)

\* read_frame when Frame::parse succeeds, connection.rs:66-77
ReadFrameOk(r) ==
    LET cnt == FrameLen(r.frame) IN
    IF CanAdvance(buffer, cnt)
    THEN /\ buffer' = From(buffer, cnt)
         /\ lastCall' = Call("Some", r.frame, buffer, r.kind, 0 - 1)
         /\ delivered' = Append(delivered, r.frame)
         /\ UNCHANGED <<sock_in, nerrs>>
    ELSE /\ lastCall' = Call("Panic", NoFrame, buffer, r.kind, 0 - 1)
         /\ UNCHANGED <<buffer, sock_in, delivered, nerrs>>

\* a read_frame whose read replaces what was buffered instead of adding to it
ReadFrameIncomplete_Overwrite(r) ==
    \/ /\ sock_in = <<>>
       /\ lastCall' = Call(IF buffer = <<>> THEN "None" ELSE "Reset", NoFrame, buffer, r.kind, 0)
       /\ UNCHANGED <<buffer, sock_in, delivered, nerrs>>
    \/ \E k \in 1..Len(sock_in) :
          /\ buffer' = UpTo(sock_in, k)
          /\ sock_in' = From(sock_in, k)
          /\ lastCall' = Call("None", NoFrame, buffer, r.kind, k)
          /\ UNCHANGED <<delivered, nerrs>>

\* read_frame when Frame::parse says Incomplete, connection.rs:78-97: one
\* read_buf; the caller drops the call while it waits (read_buf has then
\* read nothing), or it fails, or returns 0 at end of stream, or appends a
\* non-empty chunk of what is in flight; read_frame returns in every case
ReadFrameIncomplete(r) ==
    \/ /\ \E how \in {"Cancelled", "IoError"} :
             lastCall' = Call(how, NoFrame, buffer, r.kind, 0 - 1)
       /\ UNCHANGED <<buffer, sock_in, delivered, nerrs>>
    \/ /\ sock_in = <<>>
       /\ lastCall' = Call(IF buffer = <<>> THEN "None" ELSE "Reset", NoFrame, buffer, r.kind, 0)
       /\ UNCHANGED <<buffer, sock_in, delivered, nerrs>>
    \/ \E k \in 1..Len(sock_in) :
          /\ buffer' = buffer \o UpTo(sock_in, k)
          /\ sock_in' = From(sock_in, k)
          /\ lastCall' = Call("None", NoFrame, buffer, r.kind, k)
          /\ UNCHANGED <<delivered, nerrs>>

\* a read_frame that drops the first buffered byte when the decode fails
ReadFrameErr_SkipByte(r) ==
    /\ lastCall' = Call(r.kind, NoFrame, buffer, r.kind, 0 - 1)
    /\ nerrs' = IF r.kind = "Panic" THEN nerrs ELSE nerrs + 1
    /\ buffer' = Tail(buffer)
    /\ UNCHANGED <<sock_in, delivered>>

\* read_frame when Frame::parse fails otherwise, connection.rs:98; an abort
\* inside Frame::parse unwinds through read_frame
ReadFrameErr(r) ==
    /\ lastCall' = Call(r.kind, NoFrame, buffer, r.kind, 0 - 1)
    /\ nerrs' = IF r.kind = "Panic" THEN nerrs ELSE nerrs + 1
    /\ UNCHANGED <<buffer, sock_in, delivered>>

\* Connection::read_frame, connection.rs:56-101
ReadFrame ==
    /\ ncalls < MaxCalls
    /\ ~Aborted
    /\ LET r == parse(buffer) IN
         CASE r.kind = "Ok"         -> ReadFrameOk(r)
           [] r.kind = "Incomplete" -> ReadFrameIncomplete(r)
           [] OTHER                 -> ReadFrameErr(r)
    /\ ncalls' = ncalls + 1
    /\ UNCHANGED <<wbuf, sock_out, script, peer, writes, codecVars>>

\* BufWriter::write_all(bytes) as called at connection.rs:112: the future
\* is not awaited, so it is dropped unpolled and nothing enters the buffer
stream_write_all(w, bytes) == w

\* Connection::write_frame, connection.rs:111-118: the write above, then
\* flush().await, which hands the BufWriter's buffer to the socket
WriteFrame ==
    \E f \in WriteFrames :
        /\ Len(writes) < MaxWrites
        /\ ~Aborted
        /\ LET w == stream_write_all(wbuf, as_bytes(f)) IN
             /\ sock_out' = sock_out \o w
             /\ wbuf' = <<>>
        /\ writes' = Append(writes, f)
        /\ UNCHANGED <<buffer, sock_in, script, peer, lastCall, delivered, ncalls, nerrs, codecVars>>

(* read_frame works on buffer and the read half of the socket, write_frame *)
(* on the BufWriter and the write half, and &mut self keeps the two from   *)
(* overlapping: the read side and the write side are checked apart.        *)

Next == ReadFrame

Spec == Init /\ [][Next]_vars

\* a connection on which only write_frame is called
InitWrite ==
    /\ ConnIdle
    /\ CodecIdle

NextWrite == WriteFrame

SpecWrite == InitWrite /\ [][NextWrite]_vars

----------------------------------------------------------------------------
(* Properties *)

\* the bytes of src a successful parse consumed
Consumed(src, res) == Len(src) - Len(res.leftover)

IsPrefixOf(p, q) == Len(p) <= Len(q) /\ UpTo(q, Len(p)) = p

\* the index (0-based) of the first CR LF pair of src, -1 when it has none
FirstCrlf(src) ==
    LET Pairs == {i \in 0..(Len(src) - 2) : SubSeq(src, i + 1, i + 2) = CRLF} IN
    IF Pairs = {} THEN 0 - 1
    ELSE CHOOSE k \in Pairs : \A j \in Pairs : k <= j

HasHeader(src) == Len(src) >= 1 /\ FirstCrlf(src) >= 1
\* the bytes strictly between the tag byte and the first CR LF pair
HeaderToken(src) == SubSeq(src, 2, FirstCrlf(src))
\* the bytes after the first CR LF pair
AfterHeader(src) == From(src, FirstCrlf(src) + 2)

AllDigits(tok) == Len(tok) >= 1 /\ \A i \in 1..Len(tok) : IsDigit(tok[i])
IsSignedDecimal(tok) ==
    \/ AllDigits(tok)
    \/ Len(tok) >= 2 /\ tok[1] \in {"+", "-"} /\ AllDigits(Tail(tok))

\* the number a decimal token denotes
DecimalValue(tok) == DigitsValue(tok, 1, Len(tok), 0)

\* C1: encoding a constructible frame with as_bytes and parsing the bytes
\* succeeds, gives the same frame back, and consumes every byte.
C1_RoundTrip ==
    cop = "round_trip" =>
        /\ cout.res.kind = "Ok"
        /\ cout.res.frame = cin.frame
        /\ Consumed(cout.bytes, cout.res) = Len(cout.bytes)

\* C2: parse says Incomplete for every proper non-empty prefix of the wire
\* form of a frame, and succeeds on the whole wire form.
C2_IncompleteMonotonicity ==
    cop = "parse" =>
        /\ cin.role = "prefix" => cout.res.kind = "Incomplete"
        /\ cin.role = "wire" => cout.res.kind = "Ok"

\* C3: when the stream carries the wire forms of f1..fn and is then closed,
\* read_frame returns f1, f2, ... in that order, each once, no-frame only
\* after the last of them, and never an error.
C3_OrderedExactlyOnce ==
    (peer = "frames" /\ lastCall.ret \notin {"-", "IoError", "Cancelled"}) =>
        /\ IsPrefixOf(delivered, script)
        /\ lastCall.ret \in {"Some", "None"}
        /\ lastCall.ret = "None" => delivered = script

\* C4: after read_frame returns a frame decoded from a peer's wire-form
\* bytes, the buffer it decoded from is that frame's wire bytes followed by
\* what is buffered now.
C4_AdvanceExactlyFrame ==
    (peer # "raw" /\ lastCall.ret = "Some") =>
        lastCall.before = Wire(lastCall.frame) \o buffer

\* C5: read_frame returns no-frame only after a read of zero bytes with an
\* empty buffer; a read that yields bytes never ends the call with no-frame.
C5_NoneOnlyAtCleanEof ==
    lastCall.ret = "None" => (lastCall.nread = 0 /\ lastCall.before = <<>>)

\* C6: when the peer closed part-way through its frames and all its bytes
\* are handed over, a call that leaves bytes of an unfinished frame in the
\* buffer never returns no-frame; at end of stream a non-empty buffer gives
\* reset-by-peer and an empty one gives no-frame.
C6_EofSemantics ==
    /\ (peer = "cut" /\ sock_in = <<>> /\ lastCall.ret = "None") => buffer = <<>>
    /\ lastCall.nread = 0 =>
          lastCall.ret = (IF lastCall.before = <<>> THEN "None" ELSE "Reset")

\* C7: a successful parse of the wire form of a frame consumes exactly the
\* length of that wire form, terminators included.
C7_ConsumedIsWireLength ==
    (cop = "parse" /\ cin.role = "wire" /\ cout.res.kind = "Ok") =>
        Consumed(cin.bytes, cout.res) = Len(cin.bytes)

\* C8: after any sequence of write_frame calls, the bytes that reached the
\* socket are the wire forms of the frames in call order, none held back.
C8_WritesReachSocket ==
    /\ sock_out = WireAll(writes)
    /\ wbuf = <<>>

\* C9: as_bytes produces the wire form of the frame.
C9_EncodeIsWireForm ==
    cop = "as_bytes" => cout.bytes = Wire(cin.frame)

\* C10: parsing $-1 CRLF succeeds as Null and consumes the five bytes;
\* parsing $0 CRLF CRLF succeeds as a Bulk with an empty payload.
C10_NullDistinction ==
    cop = "parse" =>
        /\ cin.bytes = Wire(Null) =>
              (cout.res.kind = "Ok" /\ cout.res.frame = Null
               /\ Consumed(cin.bytes, cout.res) = Len(cin.bytes))
        /\ cin.bytes = Wire(Bulk(<<>>)) =>
              (cout.res.kind = "Ok" /\ cout.res.frame = Bulk(<<>>))

\* C11: parsing a buffer that starts with : and holds a terminator fails
\* with InvalidInteger when the token between them is not exactly an
\* optionally signed decimal.
C11_InvalidInteger ==
    (cop = "parse" /\ HasHeader(cin.bytes) /\ cin.bytes[1] = ":"
        /\ ~IsSignedDecimal(HeaderToken(cin.bytes)))
    => cout.res.kind = "InvalidInteger"

\* C12: parsing a Bulk whose header declares L >= 0, with at least L + 2
\* bytes after the header of which the two after the L payload bytes are
\* not CR LF, fails with BadFormat.
C12_MalformedBulkTerminator ==
    (cop = "parse" /\ HasHeader(cin.bytes) /\ cin.bytes[1] = "$"
        /\ AllDigits(HeaderToken(cin.bytes))
        /\ LET L == DecimalValue(HeaderToken(cin.bytes))
               rest == AfterHeader(cin.bytes)
           IN  Len(rest) >= L + 2 /\ SubSeq(rest, L + 1, L + 2) # CRLF)
    => cout.res.kind = "BadFormat"

ProtocolErrors == {"InvalidInteger", "BadFormat"}

\* C13: a read_frame call that meets a decode error returns that error and
\* leaves the read buffer as it found it; from then on the buffer stays the
\* same, no frame is returned, and every further call returns the error.
C13_ErrorIsTerminal ==
    /\ lastCall.ret \in ProtocolErrors =>
          (buffer = lastCall.before /\ parse(buffer).kind = lastCall.ret)
    /\ nerrs > 0 => lastCall.ret \in ProtocolErrors

\* a decode error was returned and read_frame was called again
C13_Witness ==
    /\ nerrs >= 2
    /\ lastCall.ret = "InvalidInteger"
    /\ buffer # <<>>

\* C14: a successful parse of a buffer whose * header declares the count N
\* returns an Array of exactly N elements, never fewer.
C14_ArrayCount ==
    (cop = "parse" /\ HasHeader(cin.bytes) /\ cin.bytes[1] = "*"
        /\ AllDigits(HeaderToken(cin.bytes)) /\ cout.res.kind = "Ok")
    => /\ cout.res.frame.tag = "Array"
       /\ Len(cout.res.frame.inner) = DecimalValue(HeaderToken(cin.bytes))

\* C15: a read_frame call that does not return a frame removes and alters
\* nothing in the read buffer: what was buffered is still there, in front,
\* and only a read that returned bytes has added to it.
C15_NoPartialConsumption ==
    lastCall.ret \notin {"-", "Some"} =>
        /\ IsPrefixOf(lastCall.before, buffer)
        /\ Len(buffer) = Len(lastCall.before) + (IF lastCall.nread > 0 THEN lastCall.nread ELSE 0)

\* a read appended to a buffer that already held bytes
C15_Witness ==
    /\ lastCall.ret = "None"
    /\ lastCall.nread > 0
    /\ lastCall.before # <<>>
    /\ buffer = lastCall.before \o From(buffer, Len(lastCall.before))

Tags == {"+", "-", ":", "$", "*"}

\* C16: parse of an empty buffer says Incomplete, and parse of a buffer
\* whose first byte is no tag says BadFormat whatever follows.
C16_TagDispatch ==
    cop = "parse" =>
        /\ cin.bytes = <<>> => cout.res.kind = "Incomplete"
        /\ (cin.bytes # <<>> /\ cin.bytes[1] \notin Tags) => cout.res.kind = "BadFormat"

\* a buffer with no tag in front and a whole frame behind it was rejected
C16_Witness ==
    /\ cop = "parse"
    /\ Len(cin.bytes) = 3
    /\ cin.bytes[1] = "x"
    /\ From(cin.bytes, 1) = CRLF
    /\ cout.res.kind = "BadFormat"

HasCrlf(bytes) == FirstCrlf(bytes) >= 0

\* C17: the payload of a decoded Simple or Error frame is the bytes between
\* the tag byte and the first CR LF pair of the buffer, and holds no CR LF.
C17_PayloadUpToFirstCrlf ==
    (cop = "parse" /\ cout.res.kind = "Ok" /\ cout.res.frame.tag \in {"Simple", "Error"}) =>
        /\ HasHeader(cin.bytes)
        /\ cout.res.frame.b = HeaderToken(cin.bytes)
        /\ ~HasCrlf(cout.res.frame.b)
        /\ cin.bytes[1] = (IF cout.res.frame.tag = "Simple" THEN "+" ELSE "-")

\* a payload with a lone CR in it was cut at the first of two CR LF pairs
C17_Witness ==
    /\ cop = "parse"
    /\ cout.res.kind = "Ok"
    /\ cout.res.frame = Simple(<<CR, "x">>)
    /\ cin.bytes = <<"+", CR, "x">> \o CRLF \o <<"x">>

ParseResults == {"Ok", "Incomplete", "InvalidInteger", "BadFormat"}

\* C18: Frame::parse is total: on every buffer it returns a frame or one of
\* Incomplete, InvalidInteger, BadFormat, and never aborts.
C18_ParseTotal == cop = "parse" => cout.res.kind \in ParseResults

\* C19: whenever read_frame has decoded a frame, Frame::len of that frame is
\* at most the number of bytes buffered, so buffer.advance never aborts.
C19_AdvanceWithinBuffer ==
    /\ lastCall.ret = "Panic" => lastCall.parsed # "Ok"
    /\ lastCall.ret = "Some" => CanAdvance(lastCall.before, FrameLen(lastCall.frame))
    /\ LET r == parse(buffer) IN r.kind = "Ok" => CanAdvance(buffer, FrameLen(r.frame))

\* an Integer frame was decoded from a full buffer and its length discarded
C19_Witness ==
    /\ lastCall.ret = "Some"
    /\ lastCall.frame = Integer(7)
    /\ lastCall.before = <<":", "7">> \o CRLF
    /\ buffer = From(lastCall.before, 1)

====
